---- MODULE Spec2Model ----
(***************************************************************************)
(* procXD: the shape model (primitives.py) and the SketchBuilder layout    *)
(* operations (sketch_builder.py) as a state machine.                      *)
(*                                                                         *)
(* Python objects live in `heap`, a sequence of records; an object's id is *)
(* its index.  Operations of the library are operators from a builder      *)
(* state st = [heap, owner, err, ret, acc, cur] to a builder state: ret is *)
(* the value the last call returned, acc a list it collects, cur the node  *)
(* being laid out.  Once st.err is set (an exception was raised) every     *)
(* later operation leaves st alone, which is how a Python exception        *)
(* unwinds the calls that follow.                                          *)
(* Style attributes (colours, stroke, fonts) are not tracked.              *)
(***************************************************************************)
EXTENDS Integers, Sequences, FiniteSets, TLC

VARIABLES
    input,        \* the arguments of the call under way
    heap,         \* every primitive and Group created so far
    owner,        \* per heap object: which node / step created it (bookkeeping)
    err,          \* "none", or the exception that ended the call
    pc,           \* position in render_stack_sketch / render_comparitive_stack_sketch
    ver,          \* 0: the base graph is laid out, k > 0: the k-th comparison
    stack,        \* the frames of _node_recursive_call, innermost last
    node_dict,    \* global_dict of the layout under way: node label -> Group
    base_dict,    \* base_node_dict of render_comparitive_stack_sketch
    prev_bbox,    \* prev_config_dict['bbox']: the previous version's dashed Box
    master,       \* master_group: the Group the outermost call returned
    draw_objs,    \* SketchBuilder.draw_objs
    last          \* the last primitive-level call and its arguments

vars == <<input, heap, owner, err, pc, ver, stack, node_dict, base_dict,
          prev_bbox, master, draw_objs, last>>

----------------------------------------------------------------------------
(* Bounds of the model *)

MaxLines == 2
MaxPadding == 2
MaxDepth == 5
GlyphW == 2
LineH == 3
MaxCoord == 1
MaxPts == 2

----------------------------------------------------------------------------
(* Small helpers *)

Max(a, b) == IF a >= b THEN a ELSE b

Min(a, b) == IF a <= b THEN a ELSE b

Range(s) == {s[i] : i \in DOMAIN s}

RECURSIVE SeqMin(_)
SeqMin(s) == IF Len(s) = 1 THEN s[1] ELSE Min(s[1], SeqMin(Tail(s)))

RECURSIVE SeqMax(_)
SeqMax(s) == IF Len(s) = 1 THEN s[1] ELSE Max(s[1], SeqMax(Tail(s)))

NoDup(s) == \A i, j \in DOMAIN s : i # j => s[i] # s[j]

EmptyMap == [n \in {} |-> 0]

----------------------------------------------------------------------------
(* The graph input: a networkx DiGraph whose nodes carry 'label' (their    *)
(* own key) and 'content' (a list of text lines).  A text line is a        *)
(* number; graph.nodes() iterates in NodeOrder.                            *)

Nodes == {"cfg", "A", "B"}

NodeOrder == <<"cfg", "A", "B">>

Stackings == {"horizontal", "vertical"}

Paddings == 1..MaxPadding

Contents == {[i \in 1..n |-> i] : n \in 0..MaxLines}

\* A graph has at most as many edges as a tree on Nodes
MostEdges == Cardinality(Nodes) - 1

SuccLists(N) == {s \in UNION {[1..k -> N] : k \in 0..MostEdges} : NoDup(s)}

RECURSIVE SumLen(_, _)
SumLen(f, S) ==
    IF S = {} THEN 0
    ELSE LET n == CHOOSE n \in S : TRUE IN Len(f[n]) + SumLen(f, S \ {n})

Graphs ==
    UNION {{[nodes |-> N, succ |-> s, content |-> c] :
                s \in {t \in [N -> SuccLists(N)] : SumLen(t, N) <= MostEdges},
                c \in [N -> Contents]} :
           N \in {M \in SUBSET Nodes : "cfg" \in M}}

\* list(graph.nodes())
NodeList(g) == SelectSeq(NodeOrder, LAMBDA n : n \in g.nodes)

\* graph.in_degree()
InDegree(g, n) == Cardinality({m \in g.nodes : n \in Range(g.succ[m])})

\* [node for node, degree in graph.in_degree() if degree == 0]
Roots(g) == SelectSeq(NodeList(g), LAMBDA n : InDegree(g, n) = 0)

RECURSIVE ReachFrom(_, _)
\* The nodes reachable from the nodes S, S included
ReachFrom(g, S) ==
    LET T == S \cup UNION {Range(g.succ[n]) : n \in S}
    IN  IF T = S THEN S ELSE ReachFrom(g, T)

\* The graphs a comparison is drawn from: nodes {cfg}, {cfg, A} or
\* {cfg, A, B}, no node has two predecessors or is its own successor, every
\* node has one or two lines of content, at most one node has two
CmpGraphs ==
    {g \in Graphs :
        /\ "B" \in g.nodes => "A" \in g.nodes
        /\ \A n \in g.nodes : InDegree(g, n) <= 1 /\ n \notin Range(g.succ[n])
        /\ \A n \in g.nodes : g.content[n] \in {<<1>>, <<1, 2>>}
        /\ SumLen(g.content, g.nodes) <= Cardinality(g.nodes) + 1}

\* The base graphs of a comparison: trees rooted at "cfg"
BaseGraphs ==
    {g \in CmpGraphs : Roots(g) = <<"cfg">> /\ ReachFrom(g, {"cfg"}) = g.nodes}

----------------------------------------------------------------------------
(* The shape model: primitives.py *)

DefaultFontSize == 20

TitleFontSize == 24

DefaultFontFamily == 1

CodeFontFamily == 3

\* The keys of FONT_FAMILY
FontFamilies == {1, 2, 3}

\* ImageFont.truetype(FONT_FAMILY[fontFamily], fontSize): the loaded font
truetype(fontFamily, fontSize) == [family |-> fontFamily, size |-> fontSize]

\* font.getsize(text): the external font-metrics provider, a deterministic
\* function of the font (its family and its size) and the text.
getsize(font, text) ==
    <<GlyphW * text + (font.size - DefaultFontSize)
        + (font.family - DefaultFontFamily),
      LineH + (font.size - DefaultFontSize)>>

\* Text._update_font, on the Text object t
update_font(t) == [t EXCEPT !.font = truetype(t.fontFamily, t.fontSize)]

\* Text._update_size
update_size(t) ==
    [t EXCEPT !.width = getsize(t.font, t.text)[1],
              !.height = getsize(t.font, t.text)[2]]

\* Text.text setter
TextSetText(t, value) == update_size([t EXCEPT !.text = value])

\* Text.fontSize setter
TextSetFontSize(t, value) == update_font([t EXCEPT !.fontSize = value])

\* Text.fontFamily setter
TextSetFontFamily(t, value) == update_font([t EXCEPT !.fontFamily = value])

\* Group.__init__
NewGroup ==
    [type |-> "group", x |-> 0, y |-> 0, width |-> 0, height |-> 0,
     elements |-> <<>>, elementIds |-> {}, render |-> "unset"]

\* Rectangle.__init__ (Diamond and Ellipse change only the type)
NewBox(type, x, y, width, height) ==
    [type |-> type, x |-> x, y |-> y, width |-> width, height |-> height,
     groupIds |-> <<>>, boundElements |-> <<>>, strokeStyle |-> "solid"]

\* Text.__init__ with text=text, fontSize=fontSize and the font family of
\* TEXT_DEFAULTS or CODE_TEXT: the font is loaded, the keyword arguments go
\* through the setters (width and height are skipped), and the closing
\* self.text = self._text measures the text
NewTextIn(fontFamily, text, fontSize) ==
    TextSetText(
        TextSetFontSize(
            update_font([type |-> "text", x |-> 0, y |-> 0,
                         width |-> 0, height |-> 0,
                         text |-> text, fontSize |-> DefaultFontSize,
                         fontFamily |-> fontFamily,
                         font |-> truetype(fontFamily, DefaultFontSize),
                         groupIds |-> <<>>, boundElements |-> <<>>]),
            fontSize),
        text)

\* Text(text=text, fontSize=fontSize)
NewText(text, fontSize) == NewTextIn(DefaultFontFamily, text, fontSize)

\* LINE_DEFAULTS["points"]
DefaultPoints == <<<<0, 0>>, <<100, 100>>>>

\* Line.points setter on the object `line`.  values[0] != [0, 0] re-bases the
\* points on the first one; xy_shift is read from the re-based list, whose
\* first point is (0, 0) by then.
PointsSet(line, values) ==
    LET rebased == values[1] # <<0, 0>>
        vals == IF rebased
                THEN [i \in DOMAIN values |->
                         <<values[i][1] - values[1][1],
                           values[i][2] - values[1][2]>>]
                ELSE values
        xy_shift == IF rebased THEN vals[1] ELSE <<0, 0>>
    IN  [line EXCEPT
            !.points = vals,
            !.x = @ + xy_shift[1],
            !.y = @ + xy_shift[2],
            !.width = SeqMax([i \in DOMAIN vals |-> vals[i][1]])
                      - SeqMin([i \in DOMAIN vals |-> vals[i][1]]),
            !.height = SeqMax([i \in DOMAIN vals |-> vals[i][2]])
                       - SeqMin([i \in DOMAIN vals |-> vals[i][2]])]

\* Line.__init__ / Arrow.__init__ with x=x, y=y: the defaults, the default
\* points through the setter, then the keyword arguments
NewLine(type, x, y) ==
    [PointsSet([type |-> type, x |-> 0, y |-> 0, width |-> 0, height |-> 0,
                points |-> <<>>, groupIds |-> <<>>, boundElements |-> <<>>,
                startBinding |-> "None", endBinding |-> "None",
                startArrowhead |-> "None",
                endArrowhead |-> IF type = "arrow" THEN "arrow" ELSE "None"],
               DefaultPoints)
        EXCEPT !.x = x, !.y = y]

IsGroup(h, o) == h[o].type = "group"

\* ExcaliDrawPrimitive.bbox
bbox(h, o) == <<h[o].x, h[o].y, h[o].x + h[o].width, h[o].y + h[o].height>>

\* The union of the members' bounding boxes, from the members themselves
MembersBox(h, g) ==
    LET els == h[g].elements IN
    <<SeqMin([i \in DOMAIN els |-> h[els[i]].x]),
      SeqMin([i \in DOMAIN els |-> h[els[i]].y]),
      SeqMax([i \in DOMAIN els |-> h[els[i]].x + h[els[i]].width]),
      SeqMax([i \in DOMAIN els |-> h[els[i]].y + h[els[i]].height])>>

Raise(st, e) == [st EXCEPT !.err = e]

\* A constructor call: the new object gets the next id, returned in st.ret
Alloc(st, obj, role) ==
    IF st.err # "none" THEN st
    ELSE [st EXCEPT !.heap = Append(@, obj),
                    !.owner = Append(@, [node |-> st.cur, role |-> role]),
                    !.ret = Len(st.heap) + 1]

\* line.points = values; values[0] of an empty list is an IndexError
set_points(st, line, values) ==
    IF st.err # "none" THEN st
    ELSE IF values = <<>> THEN Raise(st, "IndexError")
    ELSE [st EXCEPT !.heap[line] = PointsSet(@, values)]

\* update_bbox giving an empty Group degenerate bounds
update_bbox_zero_when_empty(st, g) ==
    IF st.err # "none" THEN st
    ELSE IF st.heap[g].elements = <<>>
         THEN [st EXCEPT !.heap[g].x = 0, !.heap[g].y = 0,
                         !.heap[g].width = 0, !.heap[g].height = 0]
    ELSE LET b == MembersBox(st.heap, g) IN
         [st EXCEPT !.heap[g].x = b[1], !.heap[g].y = b[2],
                    !.heap[g].width = b[3] - b[1],
                    !.heap[g].height = b[4] - b[2]]

\* Group.update_bbox: numpy fails on the empty member list
update_bbox(st, g) ==
    IF st.err # "none" THEN st
    ELSE IF st.heap[g].elements = <<>> THEN Raise(st, "IndexError")
    ELSE LET b == MembersBox(st.heap, g) IN
         [st EXCEPT !.heap[g].x = b[1], !.heap[g].y = b[2],
                    !.heap[g].width = b[3] - b[1],
                    !.heap[g].height = b[4] - b[2]]

\* add_element without the test on elementIds
AppendMember_no_dedup(st, g, e) ==
    [st EXCEPT !.heap[g].elements = Append(@, e),
               !.heap[g].elementIds = @ \cup {e},
               !.heap[e].groupIds = Append(@, g)]

\* The non-Group branch of Group.add_element, before update_bbox
AppendMember(st, g, e) ==
    IF e \in st.heap[g].elementIds THEN st
    ELSE [st EXCEPT !.heap[g].elements = Append(@, e),
                    !.heap[g].elementIds = @ \cup {e},
                    !.heap[e].groupIds = Append(@, g)]

RECURSIVE add_element(_, _, _)
RECURSIVE AddEach(_, _, _)
\* for e in es: self.add_element(e)
AddEach(st, g, es) ==
    IF es = <<>> \/ st.err # "none" THEN st
    ELSE AddEach(add_element(st, g, Head(es)), g, Tail(es))

\* Group.add_element
add_element(st, g, e) ==
    IF st.err # "none" THEN st
    ELSE IF IsGroup(st.heap, e)
         THEN update_bbox(AddEach(st, g, st.heap[e].elements), g)
         ELSE update_bbox(AppendMember(st, g, e), g)

RECURSIVE RemoveFirst(_, _)
\* list.remove(v): the first occurrence of v is taken out
RemoveFirst(s, v) ==
    IF s = <<>> THEN s
    ELSE IF Head(s) = v THEN Tail(s)
    ELSE <<Head(s)>> \o RemoveFirst(Tail(s), v)

\* Group.remove_element, lines 99-102: the branch taken for a member
DropMember(st, g, e) ==
    IF e \in st.heap[g].elementIds
    THEN [st EXCEPT !.heap[g].elements = RemoveFirst(@, e),
                    !.heap[g].elementIds = @ \ {e},
                    !.heap[e].groupIds = RemoveFirst(@, g)]
    ELSE st

\* Group.remove_element: update_bbox is called whether or not the element
\* was a member
remove_element(st, g, e) ==
    IF st.err # "none" THEN st
    ELSE update_bbox(DropMember(st, g, e), g)

RECURSIVE RemoveEach(_, _, _)
\* for element in elements: self.remove_element(element)
RemoveEach(st, g, es) ==
    IF es = <<>> \/ st.err # "none" THEN st
    ELSE RemoveEach(remove_element(st, g, Head(es)), g, Tail(es))

\* Group.empty_all_subelements: the members are removed one by one, over a
\* copy of the list
empty_all_subelements(st, g) == RemoveEach(st, g, st.heap[g].elements)

RECURSIVE ShiftX(_, _, _)
\* for element in self.elements: element.x += delta
ShiftX(h, els, delta) ==
    IF els = <<>> THEN h
    ELSE ShiftX([h EXCEPT ![Head(els)].x = @ + delta], Tail(els), delta)

RECURSIVE ShiftY(_, _, _)
ShiftY(h, els, delta) ==
    IF els = <<>> THEN h
    ELSE ShiftY([h EXCEPT ![Head(els)].y = @ + delta], Tail(els), delta)

\* A setter that places every member at the assigned value
GroupSetX_absolute(h, g, value) ==
    [[o \in DOMAIN h |->
        IF o \in Range(h[g].elements) THEN [h[o] EXCEPT !.x = value]
        ELSE h[o]] EXCEPT ![g].x = value]

\* Group.x setter: the members are translated, the Group's own _x is set
GroupSetX(h, g, value) ==
    [ShiftX(h, h[g].elements, value - h[g].x) EXCEPT ![g].x = value]

\* Group.y setter
GroupSetY(h, g, value) ==
    [ShiftY(h, h[g].elements, value - h[g].y) EXCEPT ![g].y = value]

\* element.x = value, on a Group (the setter) or a shape (a plain attribute)
set_x(st, o, value) ==
    IF st.err # "none" THEN st
    ELSE IF IsGroup(st.heap, o)
         THEN [st EXCEPT !.heap = GroupSetX(@, o, value)]
         ELSE [st EXCEPT !.heap[o].x = value]

\* element.y = value
set_y(st, o, value) ==
    IF st.err # "none" THEN st
    ELSE IF IsGroup(st.heap, o)
         THEN [st EXCEPT !.heap = GroupSetY(@, o, value)]
         ELSE [st EXCEPT !.heap[o].y = value]

----------------------------------------------------------------------------
(* Sequencing: sketch_builder.py *)

order_below(st, e1, e2, padding) ==
    IF st.err # "none" THEN st
    ELSE set_y(st, e2, bbox(st.heap, e1)[4] + padding)

order_above(st, e1, e2, padding) ==
    IF st.err # "none" THEN st
    ELSE set_y(st, e2, bbox(st.heap, e1)[2] - st.heap[e2].height - padding)

order_left(st, e1, e2, padding) ==
    IF st.err # "none" THEN st
    ELSE set_x(st, e2, bbox(st.heap, e1)[1] - st.heap[e2].width - padding)

\* order_right with the padding left out: e2 abuts e1
order_right_abutting(st, e1, e2, padding) ==
    IF st.err # "none" THEN st
    ELSE set_x(st, e2, bbox(st.heap, e1)[3])

order_right(st, e1, e2, padding) ==
    IF st.err # "none" THEN st
    ELSE set_x(st, e2, bbox(st.heap, e1)[3] + padding)

\* order_func = getattr(self, order_type)
order_func(st, order_type, e1, e2, padding) ==
    CASE order_type = "order_below" -> order_below(st, e1, e2, padding)
      [] order_type = "order_above" -> order_above(st, e1, e2, padding)
      [] order_type = "order_left" -> order_left(st, e1, e2, padding)
      [] order_type = "order_right" -> order_right(st, e1, e2, padding)

RECURSIVE OrderFrom(_, _, _, _, _)
\* A loop that places every element relative to the first of the list
OrderFrom_first(st, element_list, order_type, padding, i) ==
    IF i >= Len(element_list) THEN st
    ELSE OrderFrom(order_func(st, order_type, element_list[1],
                              element_list[i + 1], padding),
                   element_list, order_type, padding, i + 1)

\* for i in range(len(element_list)-1), from index i on
OrderFrom(st, element_list, order_type, padding, i) ==
    IF i >= Len(element_list) THEN st
    ELSE OrderFrom(order_func(st, order_type, element_list[i],
                              element_list[i + 1], padding),
                   element_list, order_type, padding, i + 1)

\* SketchBuilder.order_sequence
order_sequence(st, element_list, order_type, padding) ==
    OrderFrom(st, element_list, order_type, padding, 1)

RECURSIVE Sum(_)
Sum(s) == IF s = <<>> THEN 0 ELSE Head(s) + Sum(Tail(s))

\* int(np.mean(values)): the mean, truncated toward zero
IntMean(values) ==
    IF Sum(values) >= 0 THEN Sum(values) \div Len(values)
    ELSE 0 - ((0 - Sum(values)) \div Len(values))

RECURSIVE SetEachX(_, _, _)
\* for element in element_list: element.x = mean_x
SetEachX(st, element_list, mean_x) ==
    IF element_list = <<>> THEN st
    ELSE SetEachX(set_x(st, Head(element_list), mean_x), Tail(element_list),
                  mean_x)

RECURSIVE SetEachY(_, _, _)
\* for element in element_list: element.y = mean_y
SetEachY(st, element_list, mean_y) ==
    IF element_list = <<>> THEN st
    ELSE SetEachY(set_y(st, Head(element_list), mean_y), Tail(element_list),
                  mean_y)

\* all_x of horizontal_align: the left edges, or the right edges
AllX(h, element_list, align_type) ==
    [i \in DOMAIN element_list |->
        IF align_type = "left" THEN h[element_list[i]].x
        ELSE h[element_list[i]].x + h[element_list[i]].width]

\* all_y of vertical_align: the top edges, or the bottom edges
AllY(h, element_list, align_type) ==
    [i \in DOMAIN element_list |->
        IF align_type = "top" THEN h[element_list[i]].y
        ELSE h[element_list[i]].y + h[element_list[i]].height]

\* SketchBuilder.horizontal_align, align_type "left" or "right": every
\* element's x is set to the mean, for either align_type
horizontal_align(st, element_list, align_type) ==
    SetEachX(st, element_list, IntMean(AllX(st.heap, element_list, align_type)))

\* SketchBuilder.vertical_align, align_type "top" or "bottom"
vertical_align(st, element_list, align_type) ==
    SetEachY(st, element_list, IntMean(AllY(st.heap, element_list, align_type)))

----------------------------------------------------------------------------
(* Building blocks of the layout: sketch_builder.py *)

RECURSIVE MakeTexts(_, _)
\* for line in content: elements.append(primitives.Text(text=line))
MakeTexts(st, content) ==
    IF content = <<>> THEN st
    ELSE MakeTexts(Alloc(st, NewTextIn(CodeFontFamily, Head(content),
                                       DefaultFontSize), "text"),
                   Tail(content))

\* create_text_block, lines 120-124, for the Text elements just created:
\* they are ordered, then added to a new Group, which st.ret names
GroupTexts(st, elements, padding) ==
    AddEach(Alloc(order_sequence(st, elements, "order_below", padding),
                  NewGroup, "text_group"),
            Len(st.heap) + 1, elements)

\* SketchBuilder.create_text_block (return_group=True): st.ret is the Group
create_text_block(st, content, padding) ==
    GroupTexts(MakeTexts(st, content),
               [i \in 1..Len(content) |-> Len(st.heap) + i], padding)

\* The methods and properties the classes of primitives.py define
Attributes(type) ==
    {"export", "bbox", "center", "get_boundary_point", "get_quad_boundary_point"}
    \cup CASE type = "group" ->
                {"add_element", "remove_element", "empty_all_subelements",
                 "update_bbox", "x", "y", "width", "height"}
           [] type \in {"diamond", "ellipse"} -> {"get_boundary_points"}
           [] type = "text" ->
                {"fontFamily", "fontSize", "text", "width", "height"}
           [] type \in {"line", "arrow"} ->
                {"width", "height", "points", "set_start_binding",
                 "set_end_binding"}
           [] OTHER -> {}

\* A bounding element drawn tight around the element, the padding left out
BoundingBox_tight(h, element, element_type, padding) ==
    NewBox(element_type,
           bbox(h, element)[1],
           bbox(h, element)[2],
           bbox(h, element)[3] - bbox(h, element)[1],
           bbox(h, element)[4] - bbox(h, element)[2])

\* create_bounding_element, lines 74-81: the bounding element
BoundingBox(h, element, element_type, padding) ==
    NewBox(element_type,
           bbox(h, element)[1] - padding,
           bbox(h, element)[2] - padding,
           bbox(h, element)[3] - bbox(h, element)[1] + 2 * padding,
           bbox(h, element)[4] - bbox(h, element)[2] + 2 * padding)

\* lines 83-87: elements = element.elements is the prior Group's own list,
\* so elements.insert(0, bounding_element) puts the bounding element into
\* the prior Group (its elementIds and its bounds are not touched)
InsertBounding(st, element, bounding_element) ==
    IF IsGroup(st.heap, element)
    THEN [st EXCEPT !.heap[element].elements = <<bounding_element>> \o @]
    ELSE st

\* The list `elements` had the insert of line 87 been lost
BoundedElements_prior_only(h, element, bounding_element) ==
    IF IsGroup(h, element)
    THEN Tail(h[element].elements)
    ELSE <<element>>

\* lines 83-87: the list `elements` after the insert
BoundedElements(h, element, bounding_element) ==
    IF IsGroup(h, element)
    THEN <<bounding_element>> \o h[element].elements
    ELSE <<bounding_element, element>>

\* lines 92-93: group.x += padding; group.y += padding
PadGroup(st, group, padding) ==
    IF st.err # "none" THEN st
    ELSE [st EXCEPT !.heap = GroupSetY(GroupSetX(@, group, @[group].x + padding),
                                       group, @[group].y + padding)]

\* lines 94-97: empty_subelements is called on every Group among elements
Dissolve(st, elements, disolve_prior_group) ==
    IF /\ st.err = "none"
       /\ disolve_prior_group
       /\ \E i \in DOMAIN elements :
            /\ IsGroup(st.heap, elements[i])
            /\ "empty_subelements" \notin Attributes(st.heap[elements[i]].type)
    THEN Raise(st, "AttributeError")
    ELSE st

\* lines 88-98, for the new Group st.ret
FillGroup(st, elements, padding, disolve_prior_group) ==
    Dissolve(PadGroup(AddEach(st, st.ret, elements), st.ret, padding),
             elements, disolve_prior_group)

\* lines 82-98, for the bounding element st.ret
GroupAround(st, element, padding, disolve_prior_group) ==
    FillGroup(Alloc(InsertBounding(st, element, st.ret), NewGroup, "out_group"),
              BoundedElements(st.heap, element, st.ret),
              padding, disolve_prior_group)

\* SketchBuilder.create_bounding_element; element = 0 is None.  st.ret is
\* the value returned.
create_bounding_element(st, element, element_type, padding, return_group, disolve_prior_group) ==
    IF st.err # "none" THEN st
    ELSE IF element = 0 THEN Raise(st, "AttributeError")
    ELSE IF return_group
    THEN GroupAround(Alloc(st, BoundingBox(st.heap, element, element_type,
                                           padding), "box"),
                     element, padding, disolve_prior_group)
    ELSE Alloc(st, BoundingBox(st.heap, element, element_type, padding), "box")

\* The child Groups added to successor_group last one first
SuccessorGroup_reversed(st, f, stacking, padding) ==
    AddEach(Alloc(order_sequence(st, f.groups,
                                 IF stacking = "horizontal"
                                 THEN "order_right" ELSE "order_below",
                                 padding),
                  NewGroup, "successor_group"),
            Len(st.heap) + 1,
            [i \in DOMAIN f.groups |-> f.groups[Len(f.groups) + 1 - i]])

\* _node_recursive_call, lines 349-357: the child Groups are sequenced along
\* the stacking axis and added to successor_group, which st.ret names
SuccessorGroup(st, f, stacking, padding) ==
    AddEach(Alloc(order_sequence(st, f.groups,
                                 IF stacking = "horizontal"
                                 THEN "order_right" ELSE "order_below",
                                 padding),
                  NewGroup, "successor_group"),
            Len(st.heap) + 1, f.groups)

\* lines 358-362, for successor_group = st.ret
StackContent(st, f, padding) ==
    IF f.text_group # 0
    THEN order_sequence(st, <<f.text_group, st.ret>>, "order_below", padding)
    ELSE st

\* lines 364-366, for main_group = st.ret
FillMain(st, f, successor_group) ==
    add_element(IF f.text_group # 0
                THEN add_element(st, st.ret, f.text_group)
                ELSE st,
                st.ret, successor_group)

\* lines 358-366, for successor_group = st.ret: st.ret becomes main_group
MainGroup(st, f, padding) ==
    FillMain(Alloc(StackContent(st, f, padding), NewGroup, "main_group"),
             f, st.ret)

\* lines 370-372, for main_group = st.ret
BoundMain(st, padding) ==
    create_bounding_element(st, st.ret, "rectangle", padding, TRUE, TRUE)

\* _node_recursive_call, lines 349-372: everything after the loop over the
\* successors, for the frame f.  st.ret is out_group.
node_wrap(st, f, stacking, padding) ==
    IF f.successors # <<>>
    THEN BoundMain(MainGroup(SuccessorGroup(st, f, stacking, padding),
                             f, padding),
                   padding)
    ELSE create_bounding_element(st, f.text_group, "rectangle", padding,
                                 TRUE, TRUE)

----------------------------------------------------------------------------
(* Binding connectors and the comparison: sketch_builder.py *)

\* The assertions of lines 211-212 had they accepted every primitive
IsBoxOrText_any(h, o) == h[o].type \in {"rectangle", "diamond", "ellipse", "text", "line", "arrow", "group"}

\* isinstance(element, (primitives.Rectangle, primitives.Text)); Diamond and
\* Ellipse are subclasses of Rectangle
IsBoxOrText(h, o) == h[o].type \in {"rectangle", "diamond", "ellipse", "text"}

\* Line.set_start_binding
set_start_binding(st, line, element, padding) ==
    [st EXCEPT !.heap[line].startBinding =
                   [elementId |-> element, focus |-> 0, gap |-> padding],
               !.heap[element].boundElements =
                   Append(@, [id |-> line, type |-> "arrow"])]

\* Line.set_end_binding
set_end_binding(st, line, element, padding) ==
    [st EXCEPT !.heap[line].endBinding =
                   [elementId |-> element, focus |-> 0, gap |-> padding],
               !.heap[element].boundElements =
                   Append(@, [id |-> line, type |-> "arrow"])]

\* line.startArrowhead = startArrowhead; line.endArrowhead = endArrowhead;
\* return line
SetArrowheads(st, line, startArrowhead, endArrowhead) ==
    [st EXCEPT !.heap[line].startArrowhead = startArrowhead,
               !.heap[line].endArrowhead = endArrowhead,
               !.ret = line]

\* create_binding_arrows, lines 223-231: the Arrow is built, bound to both
\* endpoints and given its arrowheads.  Its position and its points are the
\* values of get_edge_midpoint, which primitives.py does not define; they
\* are left at the Arrow's defaults.
BindArrow(st, element_1, element_2, padding, startArrowhead, endArrowhead) ==
    SetArrowheads(
        set_end_binding(
            set_start_binding(Alloc(st, NewLine("arrow", 0, 0), "arrow"),
                              Len(st.heap) + 1, element_1, padding),
            Len(st.heap) + 1, element_2, padding),
        Len(st.heap) + 1, startArrowhead, endArrowhead)

\* SketchBuilder.create_binding_arrows.  Lines 211-212 assert the kinds of
\* the endpoints.  Lines 221-222 call get_edge_midpoint on both endpoints, a
\* name that Attributes(type) holds for no type (primitives.py defines
\* get_quad_boundary_point only): the lookup raises AttributeError.
create_binding_arrows(st, element_1, element_2, padding, startArrowhead, endArrowhead) ==
    IF st.err # "none" THEN st
    ELSE IF ~IsBoxOrText(st.heap, element_1) THEN Raise(st, "AssertionError")
    ELSE IF ~IsBoxOrText(st.heap, element_2) THEN Raise(st, "AssertionError")
    ELSE IF \E e \in {element_1, element_2} :
                "get_edge_midpoint" \notin Attributes(st.heap[e].type)
    THEN Raise(st, "AttributeError")
    ELSE BindArrow(st, element_1, element_2, padding, startArrowhead,
                   endArrowhead)

\* node_dict[node_name].render = v
SetRender(st, nd, node_name, v) ==
    IF st.err # "none" THEN st
    ELSE IF node_name \notin DOMAIN nd THEN Raise(st, "KeyError")
    ELSE [st EXCEPT !.heap[nd[node_name]].render = v]

\* The node's content and its successor list equal the base's (lines 421-424)
SameAsBase(graph, base_graph, node_name) ==
    /\ graph.content[node_name] = base_graph.content[node_name]
    /\ graph.succ[node_name] = base_graph.succ[node_name]

\* lines 429-434: the arrow from the base node's first element to this
\* node's first element, appended to match_arrows (st.acc)
MatchArrow(st, nd, bd, node_name, padding) ==
    IF st.err # "none" THEN st
    ELSE IF node_name \notin DOMAIN bd THEN Raise(st, "KeyError")
    ELSE [create_binding_arrows(st, st.heap[bd[node_name]].elements[1],
                                st.heap[nd[node_name]].elements[1],
                                padding, "arrow", "arrow")
            EXCEPT !.acc = IF @ = st.acc THEN Append(@, Len(st.heap) + 1) ELSE @]

\* lines 417-437, for one node of the comparison graph
DiffNode(st, graph, base_graph, nd, bd, node_name, padding) ==
    IF node_name \in base_graph.nodes
    THEN IF SameAsBase(graph, base_graph, node_name)
         THEN SetRender(st, nd, node_name, "False")
         ELSE MatchArrow(SetRender(st, nd, node_name, "True"), nd, bd,
                         node_name, padding)
    ELSE SetRender(st, nd, node_name, "True")

RECURSIVE DiffNodes(_, _, _, _, _, _, _)
\* lines 416-437: for node_name in graph.nodes()
DiffNodes(st, names, graph, base_graph, nd, bd, padding) ==
    IF names = <<>> \/ st.err # "none" THEN st
    ELSE DiffNodes(DiffNode(st, graph, base_graph, nd, bd, Head(names), padding),
                   Tail(names), graph, base_graph, nd, bd, padding)

\* The filter of lines 440-443 had it asked only whether the element lies in
\* a Group of node_dict, not whether that Group is rendered
Rendered_by_membership(h, nd, element) ==
    \E i \in DOMAIN h[element].groupIds : h[element].groupIds[i] \in Range(nd)

\* lines 438-443: any(group_id_dict[x].render for x in element.groupIds
\*                    if x in group_id_dict.keys())
Rendered(h, nd, element) ==
    \E i \in DOMAIN h[element].groupIds :
        /\ h[element].groupIds[i] \in Range(nd)
        /\ h[h[element].groupIds[i]].render = "True"

\* lines 439-449: what one comparison appends to draw_objs
Emitted(st, nd) ==
    SelectSeq(st.heap[nd["cfg"]].elements, LAMBDA e : Rendered(st.heap, nd, e))
    \o st.acc

\* The title of _decorate_config_box: a Text above (vertical) or left of
\* (horizontal) the dashed box.  The halves of the source's float divisions
\* are kept in half: the position is (x + half[1]/2, y + half[2]/2).
TitleText(box, label, padding, stacking) ==
    LET t == NewText(label, TitleFontSize) IN
    IF stacking = "horizontal"
    THEN [t EXCEPT !.x = box.x - 2 * t.height - padding,
                   !.y = (2 * box.y + box.height) \div 2]
           @@ [half |-> <<0, (2 * box.y + box.height) % 2>>]
    ELSE [t EXCEPT !.x = (2 * box.x + box.width - t.width) \div 2,
                   !.y = box.y - t.height - padding]
           @@ [half |-> <<(2 * box.x + box.width - t.width) % 2, 0>>]

\* _decorate_config_box, lines 461-472, for out_box = st.ret: st.acc becomes
\* <<out_box, text>>, the two objects inserted at the front of draw_objs
DashAndTitle(st, label, padding, stacking) ==
    IF st.err # "none" THEN st
    ELSE [Alloc([st EXCEPT !.heap[st.ret].strokeStyle = "dashed"],
                TitleText(st.heap[st.ret], label, padding, stacking), "title")
            EXCEPT !.acc = <<st.ret, Len(st.heap) + 1>>,
                   !.ret = st.ret]

\* SketchBuilder._decorate_config_box
decorate_config_box(st, master_group, label, padding, stacking) ==
    DashAndTitle(create_bounding_element(st, master_group, "rectangle", padding,
                                         FALSE, TRUE),
                 label, padding, stacking)

\* node_dict['cfg'] decorated, or KeyError
DecorateCfg(st, nd, label, padding, stacking) ==
    IF st.err # "none" THEN st
    ELSE IF "cfg" \notin DOMAIN nd THEN Raise(st, "KeyError")
    ELSE decorate_config_box(st, nd["cfg"], label, padding, stacking)

\* lines 406-414: the comparison is placed after the previous version
ShiftAfter(st, master_group, bbox_prev, padding, stacking) ==
    IF stacking = "horizontal"
    THEN set_y(set_x(st, master_group, 0), master_group,
               st.heap[bbox_prev].y + st.heap[bbox_prev].height + 2 * padding)
    ELSE set_y(set_x(st, master_group,
                     st.heap[bbox_prev].x + st.heap[bbox_prev].width + 2 * padding),
               master_group, 0)

----------------------------------------------------------------------------
(* The state machine *)

\* The shift argument of render_stack_sketch: None, or a position
Shifts == {<<>>, <<MaxPadding, 1>>}

\* The graph being laid out
CurGraph == IF ver = 0 THEN input.graph ELSE input.cmps[ver]

\* The builder state an operation starts from, working for `node`
St(node) == [heap |-> heap, owner |-> owner, err |-> "none", ret |-> 0,
             acc |-> <<>>, cur |-> [node |-> node, ver |-> ver]]

Put(m, k, v) == [x \in DOMAIN m \cup {k} |-> IF x = k THEN v ELSE m[x]]

Top == stack[Len(stack)]

\* _node_recursive_call, lines 318-331: the text block of `node`, if it has
\* content (st.ret is text_group)
EntrySt(node) ==
    IF CurGraph.content[node] # <<>>
    THEN create_text_block(St(node), CurGraph.content[node], input.padding)
    ELSE St(node)

\* The frame of a call of _node_recursive_call at its loop over the
\* successors (lines 332-338)
Frame(node) ==
    [node |-> node,
     text_group |-> IF CurGraph.content[node] # <<>> THEN EntrySt(node).ret ELSE 0,
     successors |-> CurGraph.succ[node],
     groups |-> <<>>]

\* roots[0] (IndexError on a graph without a node of in-degree zero) and the
\* outermost call of _node_recursive_call, up to its loop
CallRoot ==
    IF Roots(CurGraph) = <<>>
    THEN /\ err' = "IndexError"
         /\ pc' = "failed"
         /\ UNCHANGED <<heap, owner, stack>>
    ELSE /\ err' = err
         /\ pc' = "layout"
         /\ heap' = EntrySt(Roots(CurGraph)[1]).heap
         /\ owner' = EntrySt(Roots(CurGraph)[1]).owner
         /\ stack' = <<Frame(Roots(CurGraph)[1])>>

\* render_stack_sketch, lines 294-303: the call of _node_recursive_call
RenderStart ==
    /\ pc = "start"
    /\ CallRoot
    /\ node_dict' = EmptyMap
    /\ UNCHANGED <<input, ver, base_dict, prev_bbox, master, draw_objs, last>>

\* The successor the innermost call recurses into next
NextSuccessor == Top.successors[Len(Top.groups) + 1]

\* _node_recursive_call, lines 338-347 and, in the callee, 318-333: the
\* recursive call for the next successor, up to the callee's own loop; the
\* interpreter's recursion limit ends a recursion too deep
Recurse ==
    /\ pc = "layout"
    /\ stack # <<>>
    /\ Len(Top.groups) < Len(Top.successors)
    /\ IF Len(stack) >= MaxDepth
       THEN /\ err' = "RecursionError"
            /\ pc' = "failed"
            /\ stack' = <<>>
            /\ UNCHANGED <<heap, owner>>
       ELSE /\ heap' = EntrySt(NextSuccessor).heap
            /\ owner' = EntrySt(NextSuccessor).owner
            /\ stack' = Append(stack, Frame(NextSuccessor))
            /\ UNCHANGED <<err, pc>>
    /\ UNCHANGED <<input, ver, node_dict, base_dict, prev_bbox, master,
                   draw_objs, last>>

\* _node_recursive_call, lines 349-375, and the return to the caller
\* (line 348 in the parent frame, or the caller of the outermost call)
Wrap ==
    /\ pc = "layout"
    /\ stack # <<>>
    /\ Len(Top.groups) = Len(Top.successors)
    /\ LET st == node_wrap(St(Top.node), Top, input.stacking, input.padding)
           out_group == st.ret
           rest == SubSeq(stack, 1, Len(stack) - 1)
       IN  /\ heap' = st.heap
           /\ owner' = st.owner
           /\ IF st.err # "none"
              THEN /\ err' = st.err
                   /\ pc' = "failed"
                   /\ stack' = <<>>
                   /\ UNCHANGED <<node_dict, master>>
              ELSE /\ err' = err
                   /\ node_dict' = IF input.return_node_dict \/ ver > 0
                                   THEN Put(node_dict, Top.node, out_group)
                                   ELSE node_dict
                   /\ IF rest = <<>>
                      THEN /\ stack' = <<>>
                           /\ master' = out_group
                           /\ pc' = IF ver = 0 THEN "finish" ELSE "cmp_diff"
                      ELSE /\ stack' = [rest EXCEPT ![Len(rest)].groups =
                                                      Append(@, out_group)]
                           /\ UNCHANGED <<master, pc>>
    /\ UNCHANGED <<input, ver, base_dict, prev_bbox, draw_objs, last>>

\* render_stack_sketch, lines 305-312: the optional shift and the output.
\* The base layout of a comparison is rendered with shift=None.
Finish ==
    /\ pc = "finish"
    /\ \E shift \in IF input.mode = "compare" THEN {<<>>} ELSE Shifts :
         LET st0 == St("")
             st == IF shift # <<>>
                   THEN set_y(set_x(st0, master, shift[1]), master, shift[2])
                   ELSE st0
         IN  /\ heap' = st.heap
             /\ draw_objs' = draw_objs \o st.heap[master].elements
    /\ base_dict' = IF input.mode = "compare" THEN node_dict ELSE base_dict
    /\ pc' = IF input.mode = "compare" THEN "decorate" ELSE "done"
    /\ UNCHANGED <<input, owner, err, ver, stack, node_dict, prev_bbox,
                   master, last>>

\* render_comparitive_stack_sketch, lines 387-393: the base gets its dashed
\* box and its title
DecorateBase ==
    /\ pc = "decorate"
    /\ LET st == DecorateCfg(St(""), base_dict, 1, input.padding, input.stacking)
       IN  /\ heap' = st.heap
           /\ owner' = st.owner
           /\ err' = st.err
           /\ IF st.err # "none"
              THEN /\ pc' = "failed"
                   /\ UNCHANGED <<prev_bbox, draw_objs>>
              ELSE /\ pc' = "cmp_start"
                   /\ prev_bbox' = st.ret
                   /\ draw_objs' = st.acc \o draw_objs
    /\ UNCHANGED <<input, ver, stack, node_dict, base_dict, master, last>>

\* lines 394-405: the next graph of config_dict is laid out
CmpStart ==
    /\ pc = "cmp_start"
    /\ input.cmps = <<>>
    /\ \E g \in CmpGraphs : input' = [input EXCEPT !.cmps = <<g>>]
    /\ ver' = ver + 1
    /\ pc' = "cmp_root"
    /\ UNCHANGED <<heap, owner, err, stack, node_dict, base_dict, prev_bbox,
                   master, draw_objs, last>>

\* lines 398-405: the root of the comparison graph and the call of
\* _node_recursive_call
CmpRoot ==
    /\ pc = "cmp_root"
    /\ CallRoot
    /\ node_dict' = EmptyMap
    /\ UNCHANGED <<input, ver, base_dict, prev_bbox, master, draw_objs, last>>

\* lines 406-437 on the builder state
Diffed ==
    DiffNodes(ShiftAfter(St(""), master, prev_bbox, input.padding, input.stacking),
              NodeList(CurGraph), CurGraph, input.graph, node_dict, base_dict,
              input.padding)

\* lines 406-455: the comparison is placed, diffed against the base, emitted
\* and decorated
CmpDiff ==
    /\ pc = "cmp_diff"
    /\ LET st == DecorateCfg([Diffed EXCEPT !.acc = <<>>], node_dict, ver + 1,
                             input.padding, input.stacking)
       IN  /\ heap' = st.heap
           /\ owner' = st.owner
           /\ err' = st.err
           /\ IF st.err # "none"
              THEN /\ pc' = "failed"
                   /\ UNCHANGED <<prev_bbox, draw_objs>>
              ELSE /\ pc' = "done"
                   /\ prev_bbox' = st.ret
                   /\ draw_objs' = st.acc \o draw_objs \o Emitted(Diffed, node_dict)
    /\ UNCHANGED <<input, ver, stack, node_dict, base_dict, master, last>>

InitLayout ==
    /\ heap = <<>>
    /\ owner = <<>>
    /\ err = "none"
    /\ pc = "start"
    /\ ver = 0
    /\ stack = <<>>
    /\ node_dict = EmptyMap
    /\ base_dict = EmptyMap
    /\ prev_bbox = 0
    /\ master = 0
    /\ draw_objs = <<>>
    /\ last = [op |-> "none"]

\* A call render_stack_sketch(graph, stacking, padding=padding, shift=...,
\* return_node_dict=True) on a fresh SketchBuilder
Init ==
    /\ input \in [mode : {"stack"}, graph : Graphs, cmps : {<<>>},
                  stacking : Stackings, padding : Paddings,
                  return_node_dict : {TRUE}]
    /\ InitLayout

Next == RenderStart \/ Recurse \/ Wrap \/ Finish

Spec == Init /\ [][Next]_vars

\* A call render_comparitive_stack_sketch(config_dict, base, stacking,
\* padding=padding) on a fresh SketchBuilder; the comparison graph of
\* config_dict is drawn when its turn comes (CmpStart)
InitCmp ==
    /\ input \in [mode : {"compare"}, graph : BaseGraphs, cmps : {<<>>},
                  stacking : Stackings, padding : Paddings,
                  return_node_dict : {TRUE}]
    /\ InitLayout

NextCmp ==
    \/ RenderStart \/ Recurse \/ Wrap \/ Finish
    \/ DecorateBase \/ CmpStart \/ CmpRoot \/ CmpDiff

SpecCmp == InitCmp /\ [][NextCmp]_vars

----------------------------------------------------------------------------
(* The primitives on their own: one call on a handful of shapes *)

Coords == (0 - MaxCoord)..MaxCoord

\* The point lists assigned to a Line
PointLists == UNION {[1..n -> Coords \X Coords] : n \in 0..MaxPts}

Arrowheads == {"arrow", "None"}

\* No object yet, no call under way
EmptySt == [heap |-> <<>>, owner |-> <<>>, err |-> "none", ret |-> 0,
            acc |-> <<>>, cur |-> [node |-> "", ver |-> 0]]

RECURSIVE AllocEach(_, _)
AllocEach(st, objs) ==
    IF objs = <<>> THEN st
    ELSE AllocEach(Alloc(st, Head(objs), "shape"), Tail(objs))

\* Rectangle(), Diamond(), Text(text=1), Line(x=x, y=y), Arrow(x=x, y=y) and
\* a Group to which the Diamond was added
Shapes(x, y) ==
    add_element(
        AllocEach(EmptySt,
                  <<NewBox("rectangle", 0, 0, 100, 100),
                    NewBox("diamond", 0, 0, 100, 100),
                    NewText(1, DefaultFontSize),
                    NewLine("line", x, y),
                    NewLine("arrow", x, y),
                    NewGroup>>),
        6, 2)

InitPrim ==
    /\ \E x, y \in Coords : /\ heap = Shapes(x, y).heap
                            /\ owner = Shapes(x, y).owner
    /\ input = [mode |-> "primitives"]
    /\ err = "none"
    /\ pc = "primitives"
    /\ ver = 0
    /\ stack = <<>>
    /\ node_dict = EmptyMap
    /\ base_dict = EmptyMap
    /\ prev_bbox = 0
    /\ master = 0
    /\ draw_objs = <<>>
    /\ last = [op |-> "none"]

\* line.points = values on a Line or an Arrow
SetPoints ==
    /\ pc = "primitives"
    /\ last.op = "none"
    /\ \E line \in {o \in DOMAIN heap : heap[o].type \in {"line", "arrow"}},
          values \in PointLists :
         /\ heap' = set_points(St(""), line, values).heap
         /\ err' = set_points(St(""), line, values).err
         /\ last' = [op |-> "set_points", line |-> line, values |-> values,
                     pre |-> heap]
    /\ UNCHANGED <<input, owner, pc, ver, stack, node_dict, base_dict,
                   prev_bbox, master, draw_objs>>

\* builder.create_binding_arrows(element_1, element_2, padding=padding,
\*     startArrowhead=startArrowhead, endArrowhead=endArrowhead)
CreateBindingArrows ==
    /\ pc = "primitives"
    /\ last.op = "none"
    /\ \E element_1, element_2 \in DOMAIN heap, padding \in Paddings,
          startArrowhead, endArrowhead \in Arrowheads :
         LET st == create_binding_arrows(St(""), element_1, element_2, padding,
                                         startArrowhead, endArrowhead)
         IN  /\ heap' = st.heap
             /\ owner' = st.owner
             /\ err' = st.err
             /\ last' = [op |-> "create_binding_arrows",
                         element_1 |-> element_1, element_2 |-> element_2,
                         padding |-> padding,
                         startArrowhead |-> startArrowhead,
                         endArrowhead |-> endArrowhead,
                         ret |-> st.ret, pre |-> heap]
    /\ UNCHANGED <<input, pc, ver, stack, node_dict, base_dict, prev_bbox,
                   master, draw_objs>>

NextPrim == SetPoints \/ CreateBindingArrows

SpecPrim == InitPrim /\ [][NextPrim]_vars

----------------------------------------------------------------------------
(* Groups on their own: a few calls on two Groups and two Rectangles *)

MaxCalls == 2

\* The values assigned to group.x and group.y
Positions == {0 - 1, 2}

\* The member lists the two Groups start with
Memberships == {<<<<>>, <<>>>>, <<<<1>>, <<>>>>, <<<<1, 2>>, <<>>>>,
                <<<<>>, <<2>>>>, <<<<1>>, <<2>>>>, <<<<1, 2>>, <<2>>>>}

\* Rectangle(x=0, y=0, width=2, height=2), Rectangle(x=3, y=1, width=2,
\* height=3) and two Groups, to which the Rectangles of m were added
GroupShapes(m) ==
    AddEach(AddEach(AllocEach(EmptySt,
                              <<NewBox("rectangle", 0, 0, 2, 2),
                                NewBox("rectangle", 3, 1, 2, 3),
                                NewGroup, NewGroup>>),
                    3, m[1]),
            4, m[2])

InitGroup ==
    /\ \E m \in Memberships : /\ heap = GroupShapes(m).heap
                              /\ owner = GroupShapes(m).owner
    /\ input = [mode |-> "groups"]
    /\ err = "none"
    /\ pc = "groups"
    /\ ver = 0
    /\ stack = <<>>
    /\ node_dict = EmptyMap
    /\ base_dict = EmptyMap
    /\ prev_bbox = 0
    /\ master = 0
    /\ draw_objs = <<>>
    /\ last = [op |-> "none", n |-> 0]

GroupIds == {o \in DOMAIN heap : IsGroup(heap, o)}

\* The outcome of one call on Group g with argument arg
Called(op, g, arg, st) ==
    /\ heap' = st.heap
    /\ owner' = st.owner
    /\ err' = st.err
    /\ last' = [op |-> op, g |-> g, arg |-> arg, pre |-> heap,
                n |-> last.n + 1]
    /\ UNCHANGED <<input, pc, ver, stack, node_dict, base_dict, prev_bbox,
                   master, draw_objs>>

\* g.add_element(e)
AddElement ==
    /\ pc = "groups" /\ last.n < MaxCalls
    /\ \E g \in GroupIds, e \in DOMAIN heap :
         Called("add_element", g, e, add_element(St(""), g, e))

\* g.remove_element(e)
RemoveElement ==
    /\ pc = "groups" /\ last.n < MaxCalls
    /\ \E g \in GroupIds, e \in DOMAIN heap :
         Called("remove_element", g, e, remove_element(St(""), g, e))

\* g.empty_all_subelements()
EmptyAllSubelements ==
    /\ pc = "groups" /\ last.n < MaxCalls
    /\ \E g \in GroupIds :
         Called("empty_all_subelements", g, 0,
                empty_all_subelements(St(""), g))

\* g.x = value
SetGroupX ==
    /\ pc = "groups" /\ last.n < MaxCalls
    /\ \E g \in GroupIds, value \in Positions :
         Called("set_x", g, value, set_x(St(""), g, value))

\* g.y = value
SetGroupY ==
    /\ pc = "groups" /\ last.n < MaxCalls
    /\ \E g \in GroupIds, value \in Positions :
         Called("set_y", g, value, set_y(St(""), g, value))

NextGroup ==
    \/ AddElement \/ RemoveElement \/ EmptyAllSubelements
    \/ SetGroupX \/ SetGroupY

SpecGroup == InitGroup /\ [][NextGroup]_vars

----------------------------------------------------------------------------
(* A Text on its own: assignments to its attributes *)

TextValues == 1..MaxLines

FontSizes == {DefaultFontSize, TitleFontSize}

\* Text(set_to_code=..., text=..., fontSize=...)
InitText ==
    /\ \E family \in {DefaultFontFamily, CodeFontFamily},
          text \in TextValues, fontSize \in FontSizes :
         /\ heap = Alloc(EmptySt, NewTextIn(family, text, fontSize),
                         "shape").heap
         /\ owner = Alloc(EmptySt, NewTextIn(family, text, fontSize),
                          "shape").owner
    /\ input = [mode |-> "text"]
    /\ err = "none"
    /\ pc = "text"
    /\ ver = 0
    /\ stack = <<>>
    /\ node_dict = EmptyMap
    /\ base_dict = EmptyMap
    /\ prev_bbox = 0
    /\ master = 0
    /\ draw_objs = <<>>
    /\ last = [op |-> "none"]

\* The outcome of one assignment t.<attribute> = arg
Assigned(op, arg, h, e) ==
    /\ heap' = h
    /\ err' = e
    /\ last' = [op |-> op, arg |-> arg, pre |-> heap]
    /\ UNCHANGED <<input, owner, pc, ver, stack, node_dict, base_dict,
                   prev_bbox, master, draw_objs>>

\* t.text = value
SetText ==
    /\ pc = "text"
    /\ \E value \in TextValues :
         Assigned("text", value, [heap EXCEPT ![1] = TextSetText(@, value)],
                  "none")

\* t.fontSize = value
SetFontSize ==
    /\ pc = "text"
    /\ \E value \in FontSizes :
         Assigned("fontSize", value,
                  [heap EXCEPT ![1] = TextSetFontSize(@, value)], "none")

\* t.fontFamily = value
SetFontFamily ==
    /\ pc = "text"
    /\ \E value \in FontFamilies :
         Assigned("fontFamily", value,
                  [heap EXCEPT ![1] = TextSetFontFamily(@, value)], "none")

\* t.width = value, t.height = value: the properties have no setter
SetSize ==
    /\ pc = "text"
    /\ \E op \in {"width", "height"}, value \in Paddings :
         Assigned(op, value, heap, "AttributeError")

NextText == SetText \/ SetFontSize \/ SetFontFamily \/ SetSize

SpecText == InitText /\ [][NextText]_vars

----------------------------------------------------------------------------
(* Sequencing and alignment on their own: one call on a list of elements *)

MaxList == 3

\* Rectangles 1..4 of different sizes, the first two placed at (x1, y1) and
\* (x2, 0), and Group 5 holding Rectangles 2 and 4
SeqShapes(x1, y1, x2) ==
    AddEach(AllocEach(EmptySt,
                      <<NewBox("rectangle", x1, y1, 2, 2),
                        NewBox("rectangle", x2, 0, 3, 1),
                        NewBox("rectangle", 1, 1, 1, 3),
                        NewBox("rectangle", 0, 2, 2, 2),
                        NewGroup>>),
            5, <<4, 2>>)

\* The elements a list is made of: three Rectangles and the Group
Listed == {1, 2, 3, 5}

\* The lists of distinct elements handed to a call
ElementLists ==
    {l \in UNION {[1..n -> Listed] : n \in 1..MaxList} : NoDup(l)}

OrderTypes == {"order_below", "order_above", "order_left", "order_right"}

InitSeq ==
    /\ \E x1, y1, x2 \in Coords : /\ heap = SeqShapes(x1, y1, x2).heap
                                  /\ owner = SeqShapes(x1, y1, x2).owner
    /\ input = [mode |-> "sequence"]
    /\ err = "none"
    /\ pc = "sequence"
    /\ ver = 0
    /\ stack = <<>>
    /\ node_dict = EmptyMap
    /\ base_dict = EmptyMap
    /\ prev_bbox = 0
    /\ master = 0
    /\ draw_objs = <<>>
    /\ last = [op |-> "none"]

\* The outcome of the one call on element_list
Placed(op, element_list, type, padding, st) ==
    /\ heap' = st.heap
    /\ err' = st.err
    /\ last' = [op |-> op, element_list |-> element_list, type |-> type,
                padding |-> padding, pre |-> heap]
    /\ UNCHANGED <<input, owner, pc, ver, stack, node_dict, base_dict,
                   prev_bbox, master, draw_objs>>

\* builder.order_sequence(element_list, order_type, padding=padding)
OrderSequence ==
    /\ pc = "sequence" /\ last.op = "none"
    /\ \E element_list \in ElementLists, order_type \in OrderTypes,
          padding \in Paddings :
         Placed("order_sequence", element_list, order_type, padding,
                order_sequence(St(""), element_list, order_type, padding))

\* builder.horizontal_align(element_list, align_type)
HorizontalAlign ==
    /\ pc = "sequence" /\ last.op = "none"
    /\ \E element_list \in ElementLists, align_type \in {"left", "right"} :
         Placed("horizontal_align", element_list, align_type, 0,
                horizontal_align(St(""), element_list, align_type))

\* builder.vertical_align(element_list, align_type)
VerticalAlign ==
    /\ pc = "sequence" /\ last.op = "none"
    /\ \E element_list \in ElementLists, align_type \in {"top", "bottom"} :
         Placed("vertical_align", element_list, align_type, 0,
                vertical_align(St(""), element_list, align_type))

NextSeq == OrderSequence \/ HorizontalAlign \/ VerticalAlign

SpecSeq == InitSeq /\ [][NextSeq]_vars

----------------------------------------------------------------------------
(* The colours: color_utils.py.  A colour "#RRGGBB" is the triple of its
   channels; the floats of colorsys are exact fractions <<n, d>>, d > 0 *)

RECURSIVE GCD(_, _)
GCD(a, b) == IF b = 0 THEN a ELSE GCD(b, a % b)

\* The fraction n / d, d > 0, in lowest terms
Frac(n, d) == <<n \div GCD(d, n % d), d \div GCD(d, n % d)>>

FAdd(a, b) == Frac(a[1] * b[2] + b[1] * a[2], a[2] * b[2])

FSub(a, b) == Frac(a[1] * b[2] - b[1] * a[2], a[2] * b[2])

FMul(a, b) ==
    Frac((a[1] \div GCD(b[2], a[1] % b[2])) * (b[1] \div GCD(a[2], b[1] % a[2])),
         (a[2] \div GCD(a[2], b[1] % a[2])) * (b[2] \div GCD(b[2], a[1] % b[2])))

FLess(a, b) == a[1] * b[2] < b[1] * a[2]

\* colorsys.rgb_to_hsv on the channels as given (0..255, not scaled to 1)
rgb_to_hsv(rgb) ==
    LET maxc == Max(rgb[1], Max(rgb[2], rgb[3]))
        minc == Min(rgb[1], Min(rgb[2], rgb[3]))
        d == maxc - minc
        h == IF rgb[1] = maxc THEN Frac(rgb[2] - rgb[3], d)
             ELSE IF rgb[2] = maxc THEN FAdd(<<2, 1>>, Frac(rgb[3] - rgb[1], d))
             ELSE FAdd(<<4, 1>>, Frac(rgb[1] - rgb[2], d))
        h6 == FMul(h, <<1, 6>>)
    IN  IF minc = maxc THEN <<<<0, 1>>, <<0, 1>>, <<maxc, 1>>>>
        ELSE <<Frac(h6[1] % h6[2], h6[2]), Frac(d, maxc), <<maxc, 1>>>>

\* colorsys.hsv_to_rgb
hsv_to_rgb(hsv) ==
    LET h == hsv[1]
        s == hsv[2]
        v == hsv[3]
        i == FMul(h, <<6, 1>>)[1] \div FMul(h, <<6, 1>>)[2]
        f == FSub(FMul(h, <<6, 1>>), <<i, 1>>)
        p == FMul(v, FSub(<<1, 1>>, s))
        q == FMul(v, FSub(<<1, 1>>, FMul(s, f)))
        t == FMul(v, FSub(<<1, 1>>, FMul(s, FSub(<<1, 1>>, f))))
    IN  IF s = <<0, 1>> THEN <<v, v, v>>
        ELSE CASE i % 6 = 0 -> <<v, t, p>>
               [] i % 6 = 1 -> <<q, v, p>>
               [] i % 6 = 2 -> <<p, v, t>>
               [] i % 6 = 3 -> <<p, q, v>>
               [] i % 6 = 4 -> <<t, p, v>>
               [] i % 6 = 5 -> <<v, p, q>>

\* red, green, blue = tuple(int(c * 255) for c in new_color_rgb)
Channels255(hsv) ==
    [k \in 1..3 |-> FMul(hsv_to_rgb(hsv)[k], <<255, 1>>)[1]
                        \div FMul(hsv_to_rgb(hsv)[k], <<255, 1>>)[2]]

\* (luminance + 0.05) / (0 + 0.05) < 4.5, with luminance =
\* (0.2126 * red + 0.7152 * green + 0.0722 * blue) / 255, cleared of fractions
LowContrast(rgb) ==
    40 * (2126 * rgb[1] + 7152 * rgb[2] + 722 * rgb[3]) < 7 * 2550000

\* sample_color, lines 73-83: new_color_hsv for the sampled random.random()
SampledHsv(color_rgb, rand) ==
    LET color_hsv == rgb_to_hsv(color_rgb)
        hue == FAdd(color_hsv[1], FAdd(<<1, 4>>, FMul(<<1, 2>>, rand)))
    IN  <<IF FLess(<<1, 1>>, hue) THEN FSub(hue, <<1, 1>>) ELSE hue,
          IF FLess(color_hsv[2], <<1, 10>>) THEN <<0, 1>>
          ELSE FSub(color_hsv[2], <<1, 10>>),
          IF FLess(<<9, 10>>, color_hsv[3]) THEN <<1, 1>>
          ELSE FAdd(color_hsv[3], <<1, 10>>)>>

\* sample_color, lines 93-104: one pass of the contrast-repair loop
RepairedHsv(hsv) ==
    IF FLess(hsv[3], <<1, 2>>)
    THEN <<hsv[1], hsv[2], FAdd(hsv[3], <<1, 10>>)>>
    ELSE <<hsv[1], hsv[2], FSub(hsv[3], <<1, 10>>)>>

----------------------------------------------------------------------------
(* The colouring of a layout: _node_recursive_call, lines 318-348, with only
   its colours kept.  A frame holds the node of a call, its backgroundColor,
   its color_technique and the successors not yet coloured; node_dict maps
   each node called so far to the backgroundColor of its call. *)

\* Three entries of RANDOM_PALLETE: "#8B0000", "#00FF00", "#FF00FF"
RANDOM_PALLETE == <<<<139, 0, 0>>, <<0, 255, 0>>, <<255, 0, 255>>>>

\* The values of random.random() that are sampled
Randoms == {<<1, 4>>, <<21, 25>>}

\* Lines 318-322: the colours the outermost call can draw for the root:
\* random_hex_color() (here with channels 00 or FF), or one of the palette
RootColors(color_technique) ==
    IF color_technique = 0
    THEN {c \in {0, 255} \X {0, 255} \X {0, 255} : ~LowContrast(c)}
    ELSE Range(RANDOM_PALLETE)

InitColor ==
    /\ \E g \in BaseGraphs, color_technique \in {0, 1} :
         input = [mode |-> "color", graph |-> g,
                  color_technique |-> color_technique]
    /\ heap = EmptySt.heap
    /\ owner = EmptySt.owner
    /\ err = "none"
    /\ pc = "call"
    /\ ver = 0
    /\ stack = <<>>
    /\ node_dict = EmptyMap
    /\ base_dict = EmptyMap
    /\ prev_bbox = 0
    /\ master = 0
    /\ draw_objs = <<>>
    /\ last = [op |-> "none"]

\* The outermost call: backgroundColor is None
ColorRoot ==
    /\ pc = "call"
    /\ \E c \in RootColors(input.color_technique) :
         /\ stack' = <<[node |-> "cfg", backgroundColor |-> c,
                        color_technique |-> input.color_technique,
                        successors |-> input.graph.succ["cfg"]]>>
         /\ node_dict' = Put(node_dict, "cfg", c)
    /\ pc' = "color"
    /\ UNCHANGED <<input, heap, owner, err, ver, base_dict, prev_bbox,
                   master, draw_objs, last>>

\* Lines 334-347, color_technique = 1: random.sample(colors, 1)[0] for the
\* next successor, whose call is made without color_technique
PaletteChild ==
    /\ pc = "color"
    /\ Top.color_technique = 1
    /\ Top.successors # <<>>
    /\ \E c \in Range(SelectSeq(RANDOM_PALLETE,
                                LAMBDA x : x # Top.backgroundColor)) :
         /\ stack' = [stack EXCEPT ![Len(stack)].successors = Tail(@)]
                     \o <<[node |-> Head(Top.successors), backgroundColor |-> c,
                           color_technique |-> 0,
                           successors |->
                               input.graph.succ[Head(Top.successors)]]>>
         /\ node_dict' = Put(node_dict, Head(Top.successors), c)
    /\ UNCHANGED <<input, heap, owner, err, pc, ver, base_dict, prev_bbox,
                   master, draw_objs, last>>

\* Line 339, color_technique = 0: sample_color(backgroundColor) is entered
\* and runs up to the head of its loop
SampleColor ==
    /\ pc = "color"
    /\ Top.color_technique = 0
    /\ Top.successors # <<>>
    /\ \E rand \in Randoms :
         last' = [op |-> "sample_color",
                  new_color_hsv |-> SampledHsv(Top.backgroundColor, rand)]
    /\ pc' = "sample"
    /\ UNCHANGED <<input, heap, owner, err, ver, stack, node_dict, base_dict,
                   prev_bbox, master, draw_objs>>

\* sample_color, lines 92-104: one pass of the while loop
Repair ==
    /\ pc = "sample"
    /\ LowContrast(Channels255(last.new_color_hsv))
    /\ last' = [last EXCEPT !.new_color_hsv = RepairedHsv(@)]
    /\ UNCHANGED <<input, heap, owner, err, pc, ver, stack, node_dict,
                   base_dict, prev_bbox, master, draw_objs>>

\* sample_color leaves its loop and returns; the successor is called with
\* the colour returned
SampleReturn ==
    /\ pc = "sample"
    /\ ~LowContrast(Channels255(last.new_color_hsv))
    /\ stack' = [stack EXCEPT ![Len(stack)].successors = Tail(@)]
                \o <<[node |-> Head(Top.successors),
                      backgroundColor |-> Channels255(last.new_color_hsv),
                      color_technique |-> 0,
                      successors |-> input.graph.succ[Head(Top.successors)]]>>
    /\ node_dict' = Put(node_dict, Head(Top.successors),
                        Channels255(last.new_color_hsv))
    /\ last' = [op |-> "none"]
    /\ pc' = "color"
    /\ UNCHANGED <<input, heap, owner, err, ver, base_dict, prev_bbox,
                   master, draw_objs>>

\* Every successor of the innermost call is coloured: the call returns
ColorReturn ==
    /\ pc = "color"
    /\ Top.successors = <<>>
    /\ stack' = SubSeq(stack, 1, Len(stack) - 1)
    /\ pc' = IF Len(stack) = 1 THEN "done" ELSE "color"
    /\ UNCHANGED <<input, heap, owner, err, ver, node_dict, base_dict,
                   prev_bbox, master, draw_objs, last>>

NextColor ==
    \/ ColorRoot
    \/ PaletteChild
    \/ SampleColor
    \/ Repair
    \/ SampleReturn
    \/ ColorReturn

SpecColor == InitColor /\ [][NextColor]_vars

----------------------------------------------------------------------------
(* Properties of the layout (Spec) *)

Groups == {g \in DOMAIN heap : IsGroup(heap, g)}

\* C1: every Group that holds members has, in every state during and after
\* a layout, a bounding box (x, y, x + width, y + height) equal to the union
\* of the bounding boxes of its members
C1_GroupBoundsAreMembersUnion ==
    \A g \in Groups :
        heap[g].elements # <<>> => bbox(heap, g) = MembersBox(heap, g)

\* The left-to-right (top-to-bottom) placement of two sibling Groups a, b:
\* b starts where a ends plus the padding, by the Groups' own bounds and by
\* the extent of their members
Follows(a, b) ==
    IF input.stacking = "horizontal"
    THEN /\ heap[b].x = heap[a].x + heap[a].width + input.padding
         /\ MembersBox(heap, b)[1] = MembersBox(heap, a)[3] + input.padding
    ELSE /\ heap[b].y = heap[a].y + heap[a].height + input.padding
         /\ MembersBox(heap, b)[2] = MembersBox(heap, a)[4] + input.padding

\* The nodes laid out with two or more children
Parents == {n \in DOMAIN node_dict : Len(input.graph.succ[n]) >= 2}

\* C5: once a node with two or more children is laid out, and to the end of
\* render_stack_sketch, child i+1's wrapping Group starts at child i's right
\* edge plus padding (stacking horizontal; bottom edge, stacking vertical)
C5_SiblingsInSuccessorOrder ==
    \A n \in Parents :
        \A i \in 1..(Len(input.graph.succ[n]) - 1) :
            Follows(node_dict[input.graph.succ[n][i]],
                    node_dict[input.graph.succ[n][i + 1]])

\* C5's case: a horizontal layout of a node with two children has ended,
\* shifted to its final place
C5_Witness ==
    /\ pc = "done"
    /\ input.stacking = "horizontal"
    /\ Parents # {}
    /\ heap[master].x = MaxPadding

\* The objects of draw_objs of the given type
Drawn(type) == {i \in DOMAIN draw_objs : heap[draw_objs[i]].type = type}

\* The graph is one root with content and no children
SingleLeaf ==
    /\ Len(Roots(input.graph)) = 1
    /\ input.graph.succ[Roots(input.graph)[1]] = <<>>
    /\ input.graph.content[Roots(input.graph)[1]] # <<>>

\* C6: render_stack_sketch on a single root with n >= 1 lines and no
\* children emits exactly one Box and the n Texts, and the root's wrapping
\* Group has n + 1 members
C6_SingleLeafOutput ==
    (pc \in {"done", "failed"} /\ SingleLeaf) =>
        LET root == Roots(input.graph)[1]
            n == Len(input.graph.content[root])
        IN  /\ pc = "done"
            /\ Len(draw_objs) = n + 1
            /\ Cardinality(Drawn("rectangle")) = 1
            /\ Cardinality(Drawn("text")) = n
            /\ \A i \in 1..n :
                 \E j \in Drawn("text") :
                    heap[draw_objs[j]].text = input.graph.content[root][i]
            /\ Len(heap[node_dict[root]].elements) = n + 1
            /\ Range(heap[node_dict[root]].elements) = Range(draw_objs)

\* C6's case: the layout of a one-node graph with two lines has ended
C6_Witness ==
    /\ pc = "done"
    /\ input.graph.nodes = {"cfg"}
    /\ Len(input.graph.content["cfg"]) = MaxLines
    /\ Len(draw_objs) = MaxLines + 1

\* C7: on a graph without exactly one node of in-degree zero the call never
\* ends normally and never emits a primitive
C7_FailFastWithoutSingleRoot ==
    Len(Roots(input.graph)) # 1 => (pc # "done" /\ draw_objs = <<>>)

\* C8: _node_recursive_call is at no time working on the same node twice
\* along one path from the root
C8_NoNodeTwiceOnPath ==
    \A i, j \in DOMAIN stack : i # j => stack[i].node # stack[j].node

----------------------------------------------------------------------------
(* Properties of the comparison (SpecCmp) *)

\* The nodes from which n is reachable in g, n included
Ancestors(g, n) == {m \in g.nodes : n \in ReachFrom(g, {m})}

\* The node is in the base graph with the same content and successors
Unchanged(g, n) ==
    /\ n \in input.graph.nodes
    /\ g.content[n] = input.graph.content[n]
    /\ g.succ[n] = input.graph.succ[n]

\* The entries of draw_objs that are a comparison node's own Box or Text
\* lines
OwnDrawn ==
    {i \in DOMAIN draw_objs :
        /\ owner[draw_objs[i]].node.ver >= 1
        /\ owner[draw_objs[i]].node.node \in Nodes
        /\ owner[draw_objs[i]].role \in {"box", "text"}}

\* The comparison graph and the node that created the i-th drawn object
DrawnGraph(i) == input.cmps[owner[draw_objs[i]].node.ver]

DrawnNode(i) == owner[draw_objs[i]].node.node

Connectors(a, b) ==
    {i \in DOMAIN draw_objs :
        /\ heap[draw_objs[i]].type = "arrow"
        /\ heap[draw_objs[i]].startBinding # "None"
        /\ heap[draw_objs[i]].endBinding # "None"
        /\ heap[draw_objs[i]].startBinding.elementId = a
        /\ heap[draw_objs[i]].endBinding.elementId = b}

\* C3: when the comparison of a tree rooted at "cfg" is over, the output
\* holds exactly one Arrow from the base node's Box to the comparison node's
\* Box for every node of both graphs that differs, and the call has not
\* failed; it holds none for a node that is unchanged
C3_OneConnectorPerChangedNode ==
    (ver = 1 /\ pc \in {"done", "failed"} /\ input.cmps[1] \in BaseGraphs) =>
        \A n \in input.cmps[1].nodes \cap input.graph.nodes :
            IF Unchanged(input.cmps[1], n)
            THEN \A i \in Drawn("arrow") :
                    heap[draw_objs[i]].endBinding.elementId
                        # heap[node_dict[n]].elements[1]
            ELSE /\ pc = "done"
                 /\ Cardinality(Connectors(heap[base_dict[n]].elements[1],
                                           heap[node_dict[n]].elements[1])) = 1

----------------------------------------------------------------------------
(* Properties of the primitives (SpecPrim) *)

\* C4: after line.points = pts with pts not empty, points[0] is (0, 0),
\* every point is pts[i] - pts[0], and the position is the position before
\* plus pts[0]
C4_PointsRebasedAndPositionShifted ==
    (last.op = "set_points" /\ last.values # <<>>) =>
        /\ err = "none"
        /\ heap[last.line].points[1] = <<0, 0>>
        /\ \A i \in DOMAIN last.values :
             heap[last.line].points[i] =
                <<last.values[i][1] - last.values[1][1],
                  last.values[i][2] - last.values[1][2]>>
        /\ heap[last.line].x = last.pre[last.line].x + last.values[1][1]
        /\ heap[last.line].y = last.pre[last.line].y + last.values[1][2]

BoxLike == {"rectangle", "diamond", "ellipse", "text"}

\* C9: create_binding_arrows on two Box-like or Text shapes returns an Arrow
\* bound from the first to the second, with the arrowheads asked for, and
\* each endpoint's boundElements gains exactly one reference to the Arrow
C9_ArrowBoundToBothEndpoints ==
    (/\ last.op = "create_binding_arrows"
     /\ last.pre[last.element_1].type \in BoxLike
     /\ last.pre[last.element_2].type \in BoxLike
     /\ last.element_1 # last.element_2) =>
        /\ err = "none"
        /\ last.ret \in DOMAIN heap \ DOMAIN last.pre
        /\ heap[last.ret].type = "arrow"
        /\ heap[last.ret].startBinding.elementId = last.element_1
        /\ heap[last.ret].endBinding.elementId = last.element_2
        /\ heap[last.ret].startArrowhead = last.startArrowhead
        /\ heap[last.ret].endArrowhead = last.endArrowhead
        /\ \A e \in {last.element_1, last.element_2} :
             heap[e].boundElements =
                Append(last.pre[e].boundElements,
                       [id |-> last.ret, type |-> "arrow"])

\* C10: create_binding_arrows with an endpoint that is not a Rectangle, a
\* Diamond, an Ellipse or a Text fails with AssertionError, creates no
\* Arrow and leaves every boundElements list as it was
C10_InvalidEndpointRejected ==
    (/\ last.op = "create_binding_arrows"
     /\ \E e \in {last.element_1, last.element_2} :
           last.pre[e].type \notin BoxLike) =>
        /\ err = "AssertionError"
        /\ heap = last.pre

\* C10's case: a call with a Rectangle and a Line has failed
C10_Witness ==
    /\ last.op = "create_binding_arrows"
    /\ heap[last.element_1].type = "rectangle"
    /\ heap[last.element_2].type = "line"
    /\ err = "AssertionError"

----------------------------------------------------------------------------
(* Properties of Groups (SpecGroup) *)

Count(s, v) == Cardinality({i \in DOMAIN s : s[i] = v})

Bounds(h, g) == <<h[g].x, h[g].y, h[g].width, h[g].height>>

\* C11: after any sequence of add_element calls a Group's member list holds
\* no Group and no element twice, elementIds is exactly the set of the
\* members' ids, and every member's groupIds holds the Group's id exactly
\* once.
C11_MembersFlatUniqueAndBackLinked ==
    pc = "groups" =>
        \A g \in GroupIds :
            /\ \A i \in DOMAIN heap[g].elements :
                   ~IsGroup(heap, heap[g].elements[i])
            /\ NoDup(heap[g].elements)
            /\ heap[g].elementIds = Range(heap[g].elements)
            /\ \A e \in Range(heap[g].elements) :
                   Count(heap[e].groupIds, g) = 1

\* A Group with members was added to a Group that already held one of them
C11_Witness ==
    /\ pc = "groups" /\ last.op = "add_element" /\ err = "none"
    /\ IsGroup(last.pre, last.arg) /\ last.arg # last.g
    /\ Len(last.pre[last.arg].elements) >= 1
    /\ Range(last.pre[last.arg].elements)
           \cap last.pre[last.g].elementIds # {}
    /\ Len(heap[last.g].elements) = 2

\* C12: remove_element of a non-member changes nothing and raises nothing;
\* add_element(e) followed by remove_element(e), on a Group that did not
\* hold e, restores the Group's member list and bounds and e's groupIds.
C12_RemoveUndoesAdd ==
    [][/\ (/\ last'.op = "remove_element"
           /\ last'.arg \notin last'.pre[last'.g].elementIds)
          => (err' = "none" /\ heap' = last'.pre)
       /\ (/\ last.op = "add_element" /\ err = "none"
           /\ ~IsGroup(heap, last.arg)
           /\ last.arg \notin last.pre[last.g].elementIds
           /\ last'.op = "remove_element"
           /\ last'.g = last.g /\ last'.arg = last.arg)
          => /\ err' = "none"
             /\ heap'[last.g].elements = last.pre[last.g].elements
             /\ Bounds(heap', last.g) = Bounds(last.pre, last.g)
             /\ heap'[last.arg].groupIds = last.pre[last.arg].groupIds]_vars

\* C13: a call that recomputes the bounds of a Group left without members
\* ends in an error and leaves the bounds as they were: so does
\* remove_element of the last member, and empty_all_subelements on a Group
\* with members ends in the same error with the member list empty.
C13_EmptyGroupRecomputeRaises ==
    pc = "groups" =>
        /\ (/\ last.op \in {"add_element", "remove_element"}
            /\ heap[last.g].elements = <<>>)
           => /\ err = "IndexError"
              /\ Bounds(heap, last.g) = Bounds(last.pre, last.g)
        /\ (/\ last.op = "empty_all_subelements"
            /\ last.pre[last.g].elements # <<>>)
           => (err = "IndexError" /\ heap[last.g].elements = <<>>)

\* The last member of a Group was removed
C13_Witness ==
    /\ pc = "groups" /\ last.op = "remove_element"
    /\ last.pre[last.g].elements = <<last.arg>>
    /\ heap[last.g].elements = <<>>
    /\ err = "IndexError"

----------------------------------------------------------------------------
(* Properties of a Text (SpecText) *)

\* C14: after any sequence of assignments to text, fontFamily and fontSize
\* the Text's (width, height) is the measurement of its current text in its
\* current font family and size; an assignment to width or height fails and
\* changes nothing.
C14_TextSizeIsCurrentMeasure ==
    pc = "text" =>
        /\ <<heap[1].width, heap[1].height>>
             = getsize(truetype(heap[1].fontFamily, heap[1].fontSize),
                       heap[1].text)
        /\ last.op \in {"width", "height"}
             => (err = "AttributeError" /\ heap = last.pre)

----------------------------------------------------------------------------
(* Properties of the Groups of a layout (Spec) *)

\* C15: when render_stack_sketch has ended, the Groups handed to
\* create_bounding_element with disolve_prior_group=True are dissolved: a
\* Group that is not a node's wrapping Group has no members, and every
\* primitive's groupIds holds ids of wrapping Groups only.
C15_PriorGroupsDissolved ==
    (pc = "done" /\ err = "none") =>
        /\ \A g \in Groups :
             owner[g].role # "out_group" => heap[g].elements = <<>>
        /\ \A o \in DOMAIN heap \ Groups :
             \A i \in DOMAIN heap[o].groupIds :
                owner[heap[o].groupIds[i]].role = "out_group"

----------------------------------------------------------------------------
(* Properties of the render flags of a comparison (SpecCmp) *)

\* C16: when the comparison of a tree rooted at "cfg" is over, every node of
\* it is marked rendered exactly if it is absent from the base or differs
\* from it in content or successor list, and every member of the root's
\* wrapping Group is in the output once if one of the wrapping Groups in its
\* groupIds is marked rendered, and not at all otherwise.
C16_RenderFlagsDecideEmission ==
    (ver = 1 /\ pc \in {"done", "failed"} /\ input.cmps[1] \in BaseGraphs) =>
        /\ \A n \in input.cmps[1].nodes :
             /\ n \in DOMAIN node_dict
             /\ heap[node_dict[n]].render
                  = IF Unchanged(input.cmps[1], n) THEN "False" ELSE "True"
        /\ \A e \in Range(heap[node_dict["cfg"]].elements) :
             Count(draw_objs, e)
               = IF \E n \in DOMAIN node_dict :
                       /\ node_dict[n] \in Range(heap[e].groupIds)
                       /\ ~Unchanged(input.cmps[1], n)
                 THEN 1 ELSE 0

----------------------------------------------------------------------------
(* Properties of sequencing and alignment (SpecSeq) *)

\* The shapes an element of a list stands for: a Group's members, or the
\* shape itself
Leaves(h, o) == IF IsGroup(h, o) THEN Range(h[o].elements) ELSE {o}

\* No two elements of the list have a shape in common
SharesNothing(h, l) ==
    \A i, j \in DOMAIN l : i # j => Leaves(h, l[i]) \cap Leaves(h, l[j]) = {}

\* Element b lies where order_type puts it relative to element a
PlacedAfter(h, order_type, a, b, padding) ==
    CASE order_type = "order_below" -> h[b].y = h[a].y + h[a].height + padding
      [] order_type = "order_right" -> h[b].x = h[a].x + h[a].width + padding
      [] order_type = "order_above" -> h[b].y + h[b].height = h[a].y - padding
      [] order_type = "order_left" -> h[b].x + h[b].width = h[a].x - padding

\* C18: after order_sequence on a list of distinct elements with no shape
\* in common, every element i + 1 lies where the relation puts it relative
\* to element i as placed; the first element, and every element's
\* coordinate on the other axis and its size, are as before the call.
C18_SequencePlacesPairwise ==
    (/\ pc = "sequence" /\ last.op = "order_sequence"
     /\ SharesNothing(last.pre, last.element_list)) =>
        LET l == last.element_list IN
        /\ err = "none"
        /\ \A i \in 1..(Len(l) - 1) :
             PlacedAfter(heap, last.type, l[i], l[i + 1], last.padding)
        /\ heap[l[1]] = last.pre[l[1]]
        /\ \A i \in DOMAIN l :
             /\ heap[l[i]].width = last.pre[l[i]].width
             /\ heap[l[i]].height = last.pre[l[i]].height
             /\ IF last.type \in {"order_below", "order_above"}
                THEN heap[l[i]].x = last.pre[l[i]].x
                ELSE heap[l[i]].y = last.pre[l[i]].y

\* Two Rectangles and the Group, of three different widths, were put in a
\* row and the last does not lie where the first alone would put it
C18_Witness ==
    /\ pc = "sequence" /\ last.op = "order_sequence" /\ err = "none"
    /\ last.element_list = <<1, 3, 5>>
    /\ last.type = "order_right"
    /\ heap[5].x = heap[3].x + heap[3].width + last.padding
    /\ heap[5].x # heap[1].x + heap[1].width + last.padding
    /\ heap[4].x # last.pre[4].x

\* C19: after horizontal_align (vertical_align) on a list of elements with
\* no shape in common, the chosen edge of every element is the integer mean
\* that edge had across the list, so all elements share that edge.
C19_AlignedOnChosenEdge ==
    (/\ pc = "sequence" /\ last.op \in {"horizontal_align", "vertical_align"}
     /\ SharesNothing(last.pre, last.element_list)) =>
        /\ err = "none"
        /\ \A i \in DOMAIN last.element_list :
             IF last.op = "horizontal_align"
             THEN AllX(heap, last.element_list, last.type)[i]
                    = IntMean(AllX(last.pre, last.element_list, last.type))
             ELSE AllY(heap, last.element_list, last.type)[i]
                    = IntMean(AllY(last.pre, last.element_list, last.type))

----------------------------------------------------------------------------
(* Properties of the geometry of a binding Arrow (SpecPrim) *)

\* The midpoints of the four edges of shape o, each moved outward by the
\* padding, in doubled coordinates (the midpoints are at half units):
\* right, left, bottom, top
EdgeMidpoints(h, o, padding) ==
    {<<2 * (h[o].x + h[o].width + padding), 2 * h[o].y + h[o].height>>,
     <<2 * (h[o].x - padding), 2 * h[o].y + h[o].height>>,
     <<2 * h[o].x + h[o].width, 2 * (h[o].y + h[o].height + padding)>>,
     <<2 * h[o].x + h[o].width, 2 * (h[o].y - padding)>>}

\* C20: the Arrow that create_binding_arrows(a, b, padding) builds for two
\* Box-like or Text shapes starts at one of a's four padded edge midpoints
\* and ends at one of b's.
C20_ArrowJoinsEdgeMidpoints ==
    (/\ pc = "primitives" /\ last.op = "create_binding_arrows"
     /\ last.pre[last.element_1].type \in BoxLike
     /\ last.pre[last.element_2].type \in BoxLike
     /\ last.element_1 # last.element_2) =>
        /\ err = "none"
        /\ last.ret \in DOMAIN heap \ DOMAIN last.pre
        /\ LET arrow == heap[last.ret]
               tip == arrow.points[Len(arrow.points)]
           IN  /\ <<2 * arrow.x, 2 * arrow.y>>
                    \in EdgeMidpoints(heap, last.element_1, last.padding)
               /\ <<2 * (arrow.x + tip[1]), 2 * (arrow.y + tip[2])>>
                    \in EdgeMidpoints(heap, last.element_2, last.padding)

----------------------------------------------------------------------------
(* Properties of the geometry of a finished layout (Spec) *)

\* The bounding Box and the Text lines that the layout of node n created
BoxOf(n) ==
    {o \in DOMAIN heap : owner[o].role = "box" /\ owner[o].node.node = n}

TextsOf(n) ==
    {o \in DOMAIN heap : owner[o].role = "text" /\ owner[o].node.node = n}

\* The Boxes and Texts of the subtree of n
SubtreeOf(n) ==
    UNION {BoxOf(m) \cup TextsOf(m) : m \in ReachFrom(input.graph, {n})}

\* Shape o lies inside shape b with `margin` to spare on all four sides
Inside(o, b, margin) ==
    /\ heap[b].x + margin <= heap[o].x
    /\ heap[b].y + margin <= heap[o].y
    /\ heap[o].x + heap[o].width <= heap[b].x + heap[b].width - margin
    /\ heap[o].y + heap[o].height <= heap[b].y + heap[b].height - margin

\* C21: when render_stack_sketch has ended, shift included, every node's
\* bounding Box holds every other Box and Text of its subtree with at least
\* the padding to spare on each side, and the topmost Box of its children
\* starts the padding below the bottom of its last Text line.
C21_BoxEnclosesSubtreeWithPadding ==
    (pc = "done" /\ err = "none") =>
        \A n \in input.graph.nodes : \A b \in BoxOf(n) :
            /\ \A o \in SubtreeOf(n) \ {b} : Inside(o, b, input.padding)
            /\ (TextsOf(n) # {} /\ input.graph.succ[n] # <<>>) =>
                 \E top \in UNION {BoxOf(m) : m \in Range(input.graph.succ[n])} :
                    /\ \A m \in Range(input.graph.succ[n]) : \A c \in BoxOf(m) :
                          heap[top].y <= heap[c].y
                    /\ \A t \in TextsOf(n) :
                          heap[t].y + heap[t].height + input.padding <= heap[top].y
                    /\ \E t \in TextsOf(n) :
                          heap[t].y + heap[t].height + input.padding = heap[top].y

\* A layout of three levels with content on each has ended
C21_Witness ==
    /\ pc = "done" /\ err = "none"
    /\ input.graph.succ["cfg"] = <<"A">>
    /\ input.graph.succ["A"] = <<"B">>
    /\ \A n \in {"cfg", "A", "B"} : BoxOf(n) # {} /\ TextsOf(n) # {}

----------------------------------------------------------------------------
(* Properties of the order of the output of a layout (Spec) *)

\* The places of object o in draw_objs
Places(o) == {i \in DOMAIN draw_objs : draw_objs[i] = o}

\* Every place of object a is before every place of object b
Before(a, b) == \A i \in Places(a), j \in Places(b) : i < j

\* C25: when render_stack_sketch has ended, every Box and Text is in
\* draw_objs once, every node's Box comes before every other Box and Text of
\* its subtree, and the primitives of an earlier successor's subtree come
\* before those of a later successor's.
C25_OutputIsPreOrder ==
    (pc = "done" /\ err = "none") =>
        \A n \in input.graph.nodes : \A b \in BoxOf(n) :
            /\ \A o \in SubtreeOf(n) : Cardinality(Places(o)) = 1
            /\ \A o \in SubtreeOf(n) \ {b} : Before(b, o)
            /\ \A i, j \in DOMAIN input.graph.succ[n] :
                 i < j =>
                    \A p \in SubtreeOf(input.graph.succ[n][i]),
                       q \in SubtreeOf(input.graph.succ[n][j]) : Before(p, q)

\* The layout of a root with two children, content on each, has ended
C25_Witness ==
    /\ pc = "done" /\ err = "none"
    /\ input.graph.succ["cfg"] = <<"B", "A">>
    /\ \A n \in {"cfg", "A", "B"} : BoxOf(n) # {} /\ TextsOf(n) # {}
    /\ Len(draw_objs) >= 6

----------------------------------------------------------------------------
(* Properties of the placement of a comparison (SpecCmp) *)

\* The dashed bounding box that decorates version v (0: the base)
DashedBox(v) ==
    {o \in DOMAIN heap :
        /\ owner[o].role = "box"
        /\ owner[o].node = [node |-> "", ver |-> v]}

\* C23: when a comparison has been laid out and decorated, its root Group
\* starts 2 * padding after the far edge of the previous version's dashed
\* box (below it for horizontal stacking, right of it for vertical), and
\* its own dashed box does not overlap the previous one.
C23_ComparisonPlacedAfterPrevious ==
    (ver = 1 /\ pc = "done") =>
        \A d0 \in DashedBox(0), d1 \in DashedBox(1) :
            IF input.stacking = "horizontal"
            THEN /\ heap[master].y
                      = heap[d0].y + heap[d0].height + 2 * input.padding
                 /\ heap[d1].y >= heap[d0].y + heap[d0].height
            ELSE /\ heap[master].x
                      = heap[d0].x + heap[d0].width + 2 * input.padding
                 /\ heap[d1].x >= heap[d0].x + heap[d0].width

----------------------------------------------------------------------------
(* Properties of the colours of a layout (SpecColor) *)

\* C22: under the palette policy (color_technique = 1) every node called has
\* a colour different from its parent's, and no two successors of one node
\* have the same colour, at every depth.
C22_PaletteColoursDiffer ==
    input.color_technique = 1 =>
        \A n \in DOMAIN node_dict :
            \A m \in Range(input.graph.succ[n]) \cap DOMAIN node_dict :
                /\ node_dict[m] # node_dict[n]
                /\ \A k \in Range(input.graph.succ[n]) \cap DOMAIN node_dict :
                       k # m => node_dict[k] # node_dict[m]

RECURSIVE LoopExits(_, _)
\* The loop of sample_color, entered with new_color_hsv = hsv after the
\* values in `seen`, is left: it is deterministic, so it is left exactly
\* when it reaches a contrasting colour before it repeats a value
LoopExits(hsv, seen) ==
    IF ~LowContrast(Channels255(hsv)) THEN TRUE
    ELSE IF hsv \in seen THEN FALSE
    ELSE LoopExits(RepairedHsv(hsv), seen \cup {hsv})

\* C24: every call of sample_color returns: from each value its
\* contrast-repair loop holds, the loop reaches a colour whose contrast
\* against black is at least 4.5:1 after finitely many passes.
C24_SampleColorReturns ==
    pc = "sample" => LoopExits(last.new_color_hsv, {})

====
